---- MODULE Spec2Model ----
(***************************************************************************)
(* Model of scripts/optimize_ppocr_models.py: a sequential pipeline that   *)
(* selects a model table from the environment, fetches each model, runs    *)
(* the external optimizer paddle_lite_opt on it, fetches a dictionary and  *)
(* removes the downloads directory.                                        *)
(*                                                                         *)
(* Representation.  A URL is the sequence of its '/'-separated segments,   *)
(* so url.split('/')[-1] is its last element.  A file below downloads/ is  *)
(* <<directory, file name>>.  A text file is the sequence of its           *)
(* characters.  log is the history of the external effects of the run.     *)
(***************************************************************************)
EXTENDS Integers, Sequences, FiniteSets, TLC

VARIABLES
    env_version,        \* os.environ['OCR_VERSION'], "unset" when absent
    env_hf,             \* os.environ['USE_HF'], "unset" when absent
    opt_installed,      \* paddle_lite_opt is on the PATH
    pc,                 \* position of the script
    i,                  \* index of the model the loop of main is at
    j,                  \* index of the file the loop of download_hf_model is at
    exit_status,        \* status of the process once pc = "exited" or "done"
    downloads_exists,   \* the directory downloads/ exists
    dirs,               \* directories below downloads/
    files,              \* files below downloads/
    cwd_tars,           \* archive files in the working directory
    dict_file,          \* optimized_models/ppocr_keys_v1.txt
    nb_files,           \* outputs the optimizer wrote to optimized_models/
    log                 \* history of external effects

vars == <<env_version, env_hf, opt_installed, pc, i, j, exit_status,
          downloads_exists, dirs, files, cwd_tars, dict_file, nb_files, log>>

\* Longest content (in characters) a remote or partial dictionary is drawn from.
MaxPartial == 2

----------------------------------------------------------------------------
\* Module level: configuration selection

\* str.lower() on the environment values the model draws.
Lower(s) ==
    CASE s = "V3" -> "v3"
      [] s = "V5" -> "v5"
      [] s = "True" -> "true"
      [] OTHER -> s

EnvGet(value, default) == IF value = "unset" THEN default ELSE value

OCR_VERSION == Lower(EnvGet(env_version, "v3"))

USE_HUGGINGFACE == Lower(EnvGet(env_hf, "false")) = "true"

Models_v5_hf ==
    <<
       [key |-> "detection", config |->
          [url |-> <<"https:", "", "huggingface.co", "PaddlePaddle", "PP-OCRv5_mobile_det">>,
           name |-> "PP-OCRv5_mobile_det",
           output |-> "ppocr_det_v5",
           is_hf_repo |-> TRUE]],
       [key |-> "recognition", config |->
          [url |-> <<"https:", "", "huggingface.co", "PaddlePaddle", "PP-OCRv5_mobile_rec">>,
           name |-> "PP-OCRv5_mobile_rec",
           output |-> "ppocr_rec_v5",
           is_hf_repo |-> TRUE]],
       [key |-> "classifier", config |->
          [url |-> <<"https:", "", "paddleocr.bj.bcebos.com", "dygraph_v2.0", "ch", "ch_ppocr_mobile_v2.0_cls_infer.tar">>,
           name |-> "ch_ppocr_mobile_v2.0_cls_infer",
           output |-> "ppocr_cls",
           is_hf_repo |-> FALSE]]
    >>

Models_v5_bos ==
    <<
       [key |-> "detection", config |->
          [url |-> <<"https:", "", "paddleocr.bj.bcebos.com", "PP-OCRv5", "chinese", "ch_PP-OCRv5_det_infer.tar">>,
           name |-> "ch_PP-OCRv5_det_infer",
           output |-> "ppocr_det_v5",
           is_hf_repo |-> FALSE]],
       [key |-> "recognition", config |->
          [url |-> <<"https:", "", "paddleocr.bj.bcebos.com", "PP-OCRv5", "chinese", "ch_PP-OCRv5_rec_infer.tar">>,
           name |-> "ch_PP-OCRv5_rec_infer",
           output |-> "ppocr_rec_v5",
           is_hf_repo |-> FALSE]],
       [key |-> "classifier", config |->
          [url |-> <<"https:", "", "paddleocr.bj.bcebos.com", "dygraph_v2.0", "ch", "ch_ppocr_mobile_v2.0_cls_infer.tar">>,
           name |-> "ch_ppocr_mobile_v2.0_cls_infer",
           output |-> "ppocr_cls",
           is_hf_repo |-> FALSE]]
    >>

Models_v4_hf ==
    <<
       [key |-> "detection", config |->
          [url |-> <<"https:", "", "huggingface.co", "PaddlePaddle", "PP-OCRv4_mobile_det">>,
           name |-> "PP-OCRv4_mobile_det",
           output |-> "ppocr_det_v4",
           is_hf_repo |-> TRUE]],
       [key |-> "recognition", config |->
          [url |-> <<"https:", "", "huggingface.co", "PaddlePaddle", "PP-OCRv4_mobile_rec">>,
           name |-> "PP-OCRv4_mobile_rec",
           output |-> "ppocr_rec_v4",
           is_hf_repo |-> TRUE]],
       [key |-> "classifier", config |->
          [url |-> <<"https:", "", "paddleocr.bj.bcebos.com", "dygraph_v2.0", "ch", "ch_ppocr_mobile_v2.0_cls_infer.tar">>,
           name |-> "ch_ppocr_mobile_v2.0_cls_infer",
           output |-> "ppocr_cls",
           is_hf_repo |-> FALSE]]
    >>

Models_v4_bos ==
    <<
       [key |-> "detection", config |->
          [url |-> <<"https:", "", "paddleocr.bj.bcebos.com", "PP-OCRv4", "chinese", "ch_PP-OCRv4_det_infer.tar">>,
           name |-> "ch_PP-OCRv4_det_infer",
           output |-> "ppocr_det_v4",
           is_hf_repo |-> FALSE]],
       [key |-> "recognition", config |->
          [url |-> <<"https:", "", "paddleocr.bj.bcebos.com", "PP-OCRv4", "chinese", "ch_PP-OCRv4_rec_infer.tar">>,
           name |-> "ch_PP-OCRv4_rec_infer",
           output |-> "ppocr_rec_v4",
           is_hf_repo |-> FALSE]],
       [key |-> "classifier", config |->
          [url |-> <<"https:", "", "paddleocr.bj.bcebos.com", "dygraph_v2.0", "ch", "ch_ppocr_mobile_v2.0_cls_infer.tar">>,
           name |-> "ch_ppocr_mobile_v2.0_cls_infer",
           output |-> "ppocr_cls",
           is_hf_repo |-> FALSE]]
    >>

Models_v3_hf ==
    <<
       [key |-> "detection", config |->
          [url |-> <<"https:", "", "huggingface.co", "PaddlePaddle", "ch_PP-OCRv3_det_infer", "resolve", "main", "inference.tar">>,
           name |-> "ch_PP-OCRv3_det_infer",
           output |-> "ppocr_det_v3"]],
       [key |-> "recognition", config |->
          [url |-> <<"https:", "", "huggingface.co", "PaddlePaddle", "ch_PP-OCRv3_rec_infer", "resolve", "main", "inference.tar">>,
           name |-> "ch_PP-OCRv3_rec_infer",
           output |-> "ppocr_rec_v3"]],
       [key |-> "classifier", config |->
          [url |-> <<"https:", "", "paddleocr.bj.bcebos.com", "dygraph_v2.0", "ch", "ch_ppocr_mobile_v2.0_cls_infer.tar">>,
           name |-> "ch_ppocr_mobile_v2.0_cls_infer",
           output |-> "ppocr_cls"]]
    >>

Models_v3_bos ==
    <<
       [key |-> "detection", config |->
          [url |-> <<"https:", "", "paddleocr.bj.bcebos.com", "PP-OCRv3", "chinese", "ch_PP-OCRv3_det_infer.tar">>,
           name |-> "ch_PP-OCRv3_det_infer",
           output |-> "ppocr_det_v3"]],
       [key |-> "recognition", config |->
          [url |-> <<"https:", "", "paddleocr.bj.bcebos.com", "PP-OCRv3", "chinese", "ch_PP-OCRv3_rec_infer.tar">>,
           name |-> "ch_PP-OCRv3_rec_infer",
           output |-> "ppocr_rec_v3"]],
       [key |-> "classifier", config |->
          [url |-> <<"https:", "", "paddleocr.bj.bcebos.com", "dygraph_v2.0", "ch", "ch_ppocr_mobile_v2.0_cls_infer.tar">>,
           name |-> "ch_ppocr_mobile_v2.0_cls_infer",
           output |-> "ppocr_cls"]]
    >>

\* Fault: the v4 Hugging Face branch repeats the recognition entry in
\* place of the classifier entry.
SelectModels_partial(version, hf) ==
    IF version = "v5" THEN (IF hf THEN Models_v5_hf ELSE Models_v5_bos)
    ELSE IF version = "v4" THEN (IF hf THEN <<Models_v4_hf[1], Models_v4_hf[2], Models_v4_hf[2]>> ELSE Models_v4_bos)
    ELSE (IF hf THEN Models_v3_hf ELSE Models_v3_bos)

SelectModels(version, hf) ==
    IF version = "v5" THEN (IF hf THEN Models_v5_hf ELSE Models_v5_bos)
    ELSE IF version = "v4" THEN (IF hf THEN Models_v4_hf ELSE Models_v4_bos)
    ELSE (IF hf THEN Models_v3_hf ELSE Models_v3_bos)

MODELS == SelectModels(OCR_VERSION, USE_HUGGINGFACE)

----------------------------------------------------------------------------
\* Environment the run starts in

EnvVersions == {"unset", "v3", "V3", "v4", "v5", "V5", "v6"}

EnvFlags == {"unset", "true", "True", "false"}

\* config.get('is_hf_repo', False)
IsHfRepo(config) ==
    IF "is_hf_repo" \in DOMAIN config THEN config.is_hf_repo ELSE FALSE

\* url.split('/')[-1]
ArchiveName(url) == url[Len(url)]

\* Contents a remote dictionary, or the part of it a failed transfer wrote,
\* can have: the character sequences of length at most MaxPartial.
DictContents ==
    UNION {[1..n -> {"x", "\n"}] : n \in 0..MaxPartial}

NoFile == [exists |-> FALSE, content |-> <<>>]

TextFile(content) == [exists |-> TRUE, content |-> content]

PrimaryModelFile(model_name) == <<model_name, "inference.pdmodel">>

LegacyModelFile(model_name) == <<model_name, model_name \o ".pdmodel">>

\* What an archive can hold: the current layout, the legacy layout, the
\* json graph format without a .pdmodel file, or nothing under the name.
ArchiveLayouts(model_name) ==
    { {PrimaryModelFile(model_name), <<model_name, "inference.pdiparams">>},
      {LegacyModelFile(model_name), <<model_name, model_name \o ".pdiparams">>},
      {<<model_name, "inference.json">>, <<model_name, "inference.pdiparams">>},
      {<<"inference", "inference.pdmodel">>} }

\* What an earlier, aborted run can have left in downloads/.
LeftoverDownloads ==
    { {}, {PrimaryModelFile(MODELS[1].config.name)},
          {LegacyModelFile(MODELS[3].config.name)} }

\* Archives an earlier, aborted run of this configuration can have left.
LeftoverArchives ==
    {{}} \cup {{ArchiveName(MODELS[k].config.url)} :
                  k \in {n \in 1..Len(MODELS) : ~IsHfRepo(MODELS[n].config)}}

Event(op, model, url, path, ok) ==
    [op |-> op, model |-> model, url |-> url, path |-> path, ok |-> ok]

Init ==
    /\ env_version \in EnvVersions
    /\ env_hf \in EnvFlags
    /\ opt_installed \in BOOLEAN
    /\ pc = "start"
    /\ i = 1
    /\ j = 1
    /\ exit_status = -1
    /\ \E left \in LeftoverDownloads :
          /\ files = left
          /\ dirs = {p[1] : p \in left}
          /\ downloads_exists \in (IF left = {} THEN BOOLEAN ELSE {TRUE})
    /\ cwd_tars \in LeftoverArchives
    /\ dict_file \in {NoFile, TextFile(<<"x", "\n">>)}
    /\ nb_files = {}
    /\ log = <<>>

----------------------------------------------------------------------------
\* Process termination

\* sys.exit(status)
Exit(status) == pc' = "exited" /\ exit_status' = status

\* An exception nothing catches: traceback, status 1.
Raise == Exit(1)

----------------------------------------------------------------------------
\* main

\* os.makedirs('downloads', exist_ok=True); os.makedirs('optimized_models', ...)
main_makedirs ==
    /\ pc = "start"
    /\ downloads_exists' = TRUE
    /\ pc' = "probe"
    /\ UNCHANGED <<env_version, env_hf, opt_installed, i, j, exit_status,
                   dirs, files, cwd_tars, dict_file, nb_files, log>>

\* os.system("paddle_lite_opt --help > /dev/null 2>&1"): the wait status.
ProbeStatus == IF opt_installed THEN 0 ELSE 32512

\* Fault: the status of the probe is not acted on.
main_probe_unchecked ==
    /\ pc = "probe"
    /\ log' = Append(log, Event("probe", 0, <<>>, <<>>, ProbeStatus = 0))
    /\ pc' = "loop" /\ i' = 1
    /\ UNCHANGED <<env_version, env_hf, opt_installed, j, exit_status,
                   downloads_exists, dirs, files, cwd_tars, dict_file, nb_files>>

main_probe ==
    /\ pc = "probe"
    /\ log' = Append(log, Event("probe", 0, <<>>, <<>>, ProbeStatus = 0))
    /\ IF ProbeStatus # 0
       THEN Exit(1) /\ UNCHANGED i
       ELSE pc' = "loop" /\ i' = 1 /\ UNCHANGED exit_status
    /\ UNCHANGED <<env_version, env_hf, opt_installed, j, downloads_exists,
                   dirs, files, cwd_tars, dict_file, nb_files>>

\* Fault: the loop ends one model early.
main_loop_short ==
    /\ pc = "loop"
    /\ pc' = IF i >= Len(MODELS) THEN "dict"
             ELSE IF IsHfRepo(MODELS[i].config) THEN "hf_begin"
             ELSE "tar_download"
    /\ UNCHANGED <<env_version, env_hf, opt_installed, i, j, exit_status,
                   downloads_exists, dirs, files, cwd_tars, dict_file,
                   nb_files, log>>

\* for model_type, config in MODELS.items(): the dispatch on is_hf_repo
main_loop ==
    /\ pc = "loop"
    /\ pc' = IF i > Len(MODELS) THEN "dict"
             ELSE IF IsHfRepo(MODELS[i].config) THEN "hf_begin"
             ELSE "tar_download"
    /\ UNCHANGED <<env_version, env_hf, opt_installed, i, j, exit_status,
                   downloads_exists, dirs, files, cwd_tars, dict_file,
                   nb_files, log>>

----------------------------------------------------------------------------
\* download_hf_model

HfFiles == <<"inference.pdiparams", "inference.json">>

download_hf_model_begin ==
    /\ pc = "hf_begin"
    /\ dirs' = dirs \cup {MODELS[i].config.name}
    /\ j' = 1
    /\ pc' = "hf_fetch"
    /\ UNCHANGED <<env_version, env_hf, opt_installed, i, exit_status,
                   downloads_exists, files, cwd_tars, dict_file, nb_files, log>>

\* Fault: the handler logs the failure and the loop goes on.
HfFetchFailed_swallowed ==
    /\ j' = j + 1
    /\ pc' = IF j = Len(HfFiles) THEN "hf_copy" ELSE "hf_fetch"
    /\ UNCHANGED exit_status

\* What follows a failed urlretrieve of a repository file: the handler re-raises.
HfFetchFailed == Raise /\ UNCHANGED j

\* One iteration of the loop over files.  A failed transfer leaves nothing
\* or a partial file at output_path.
download_hf_model_fetch ==
    /\ pc = "hf_fetch"
    /\ LET filename == HfFiles[j]
           file_url == MODELS[i].config.url \o <<"resolve", "main", filename>>
           output_path == <<MODELS[i].config.name, filename>>
       IN \E outcome \in {"ok", "failed", "partial"} :
             /\ log' = Append(log, Event("fetch", i, file_url, output_path,
                                         outcome = "ok"))
             /\ files' = IF outcome = "failed" THEN files
                         ELSE files \cup {output_path}
             /\ IF outcome = "ok"
                THEN /\ j' = j + 1
                     /\ pc' = IF j = Len(HfFiles) THEN "hf_copy" ELSE "hf_fetch"
                     /\ UNCHANGED exit_status
                ELSE HfFetchFailed
    /\ UNCHANGED <<env_version, env_hf, opt_installed, i, downloads_exists,
                   dirs, cwd_tars, dict_file, nb_files>>

\* shutil.copy2(json_path, model_path) when inference.json exists
download_hf_model_copy ==
    /\ pc = "hf_copy"
    /\ LET json_path == <<MODELS[i].config.name, "inference.json">>
           model_path == <<MODELS[i].config.name, "inference.pdmodel">>
       IN IF json_path \in files
          THEN /\ files' = files \cup {model_path}
               /\ log' = Append(log, Event("copy", i, <<>>, model_path, TRUE))
          ELSE UNCHANGED <<files, log>>
    /\ pc' = "optimize"
    /\ UNCHANGED <<env_version, env_hf, opt_installed, i, j, exit_status,
                   downloads_exists, dirs, cwd_tars, dict_file, nb_files>>

----------------------------------------------------------------------------
\* download_and_extract

\* What follows a failed urlretrieve of an archive: nothing catches it.
ArchiveFetchFailed == Raise

\* urllib.request.urlretrieve(url, filename)
download_and_extract_download ==
    /\ pc = "tar_download"
    /\ LET url == MODELS[i].config.url
           filename == ArchiveName(url)
       IN \E outcome \in {"ok", "failed", "partial"} :
             /\ log' = Append(log, Event("fetch", i, url, <<filename>>,
                                         outcome = "ok"))
             /\ cwd_tars' = IF outcome = "failed" THEN cwd_tars
                            ELSE cwd_tars \cup {filename}
             /\ IF outcome = "ok"
                THEN pc' = "tar_extract" /\ UNCHANGED exit_status
                ELSE ArchiveFetchFailed
    /\ UNCHANGED <<env_version, env_hf, opt_installed, i, j, downloads_exists,
                   dirs, files, dict_file, nb_files>>

\* tarfile.open(filename).extractall(extract_path); a failure leaves the
\* members extracted so far.
download_and_extract_extract ==
    /\ pc = "tar_extract"
    /\ LET filename == ArchiveName(MODELS[i].config.url)
       IN \E layout \in ArchiveLayouts(MODELS[i].config.name) :
          \E extracted \in SUBSET layout :
             LET ok == extracted = layout
             IN /\ files' = files \cup extracted
                /\ dirs' = dirs \cup {p[1] : p \in extracted}
                /\ log' = Append(log, Event("extract", i, <<>>, <<filename>>, ok))
                /\ IF ok
                   THEN pc' = "tar_remove" /\ UNCHANGED exit_status
                   ELSE Raise
    /\ UNCHANGED <<env_version, env_hf, opt_installed, i, j, downloads_exists,
                   cwd_tars, dict_file, nb_files>>

\* Fault: the archive is not removed after extraction.
download_and_extract_remove_skipped ==
    /\ pc = "tar_remove"
    /\ log' = Append(log, Event("remove", i, <<>>,
                                <<ArchiveName(MODELS[i].config.url)>>, TRUE))
    /\ pc' = "optimize"
    /\ UNCHANGED <<env_version, env_hf, opt_installed, i, j, exit_status,
                   downloads_exists, dirs, files, cwd_tars, dict_file, nb_files>>

\* os.remove(filename)
download_and_extract_remove ==
    /\ pc = "tar_remove"
    /\ LET filename == ArchiveName(MODELS[i].config.url)
       IN /\ cwd_tars' = cwd_tars \ {filename}
          /\ log' = Append(log, Event("remove", i, <<>>, <<filename>>, TRUE))
    /\ pc' = "optimize"
    /\ UNCHANGED <<env_version, env_hf, opt_installed, i, j, exit_status,
                   downloads_exists, dirs, files, dict_file, nb_files>>

----------------------------------------------------------------------------
\* optimize_model, and the check of its result in main

\* model_file after the fallback to the old naming convention
SelectModelFile(model_name) ==
    IF PrimaryModelFile(model_name) \in files
    THEN PrimaryModelFile(model_name)
    ELSE LegacyModelFile(model_name)

\* Fault: the existence check is dropped.
ModelFileFound_unchecked(model_file) == TRUE

\* os.path.exists(model_file), the guard before the optimizer runs
ModelFileFound(model_file) == model_file \in files

\* Wait statuses os.system(cmd) returns for a run of the installed optimizer.
OptimizerStatuses == {0, 256}

\* Fault: a failed model is reported and the loop goes on to the next.
main_on_failure_continue == i' = i + 1 /\ pc' = "loop" /\ UNCHANGED exit_status

\* Fault: a failed model is attempted again.
main_on_failure_retry == pc' = "loop" /\ UNCHANGED <<i, exit_status>>

\* if not success: sys.exit(1)
main_on_failure == Exit(1) /\ UNCHANGED i

\* success: the loop goes on to the next model
main_on_success == i' = i + 1 /\ pc' = "loop" /\ UNCHANGED exit_status

optimize_model ==
    /\ pc = "optimize"
    /\ LET config == MODELS[i].config
           model_file == SelectModelFile(config.name)
       IN IF ~ModelFileFound(model_file)
          THEN /\ log' = Append(log, Event("missing", i, <<>>, model_file, FALSE))
               /\ main_on_failure
               /\ UNCHANGED nb_files
          ELSE \E result \in OptimizerStatuses :
                  /\ log' = Append(log, Event("optimize", i, <<>>, model_file,
                                              result = 0))
                  /\ IF result = 0
                     THEN /\ nb_files' = nb_files \cup {config.output \o ".nb"}
                          /\ main_on_success
                     ELSE /\ main_on_failure
                          /\ UNCHANGED nb_files
    /\ UNCHANGED <<env_version, env_hf, opt_installed, j, downloads_exists,
                   dirs, files, cwd_tars, dict_file>>

----------------------------------------------------------------------------
\* download_ppocr_dict

dict_url ==
    <<"https:", "", "raw.githubusercontent.com", "PaddlePaddle", "PaddleOCR",
      "main", "ppocr", "utils", "dict", "en_dict.txt">>

dict_path == <<"optimized_models", "ppocr_keys_v1.txt">>

chars ==
    << "a", "b", "c", "d", "e", "f", "g", "h", "i", "j", "k", "l", "m",
       "n", "o", "p", "q", "r", "s", "t", "u", "v", "w", "x", "y", "z",
       "A", "B", "C", "D", "E", "F", "G", "H", "I", "J", "K", "L", "M",
       "N", "O", "P", "Q", "R", "S", "T", "U", "V", "W", "X", "Y", "Z",
       "0", "1", "2", "3", "4", "5", "6", "7", "8", "9" >>

\* Fault: the failure of the dictionary fetch is not caught.
DictFetchFailed_uncaught == Raise

\* except Exception: the handler goes on to write the fallback
DictFetchFailed == pc' = "dict_fallback" /\ UNCHANGED exit_status

\* urllib.request.urlretrieve(dict_url, dict_file).  A failure before the
\* file is opened leaves what was there; a later one leaves a partial file.
download_ppocr_dict_fetch ==
    /\ pc = "dict"
    /\ \E ok \in BOOLEAN, opened \in BOOLEAN, content \in DictContents :
          /\ dict_file' = IF ok \/ opened THEN TextFile(content) ELSE dict_file
          /\ log' = Append(log, Event("fetch", 0, dict_url, dict_path, ok))
          /\ IF ok
             THEN pc' = "cleanup" /\ UNCHANGED exit_status
             ELSE DictFetchFailed
    /\ UNCHANGED <<env_version, env_hf, opt_installed, i, j, downloads_exists,
                   dirs, files, cwd_tars, nb_files>>

\* Fault: the file is opened for appending.
OpenForWrite_append(file) == TextFile(file.content)

\* open(dict_file, 'w')
OpenForWrite(file) == TextFile(<<>>)

\* for char in chars: f.write(f"{char}\n")
RECURSIVE WriteChars(_, _, _)
WriteChars(content, cs, k) ==
    IF k > Len(cs) THEN content
    ELSE WriteChars(content \o <<cs[k], "\n">>, cs, k + 1)

download_ppocr_dict_fallback ==
    /\ pc = "dict_fallback"
    /\ dict_file' = TextFile(WriteChars(OpenForWrite(dict_file).content, chars, 1))
    /\ log' = Append(log, Event("fallback", 0, <<>>, dict_path, TRUE))
    /\ pc' = "cleanup"
    /\ UNCHANGED <<env_version, env_hf, opt_installed, i, j, exit_status,
                   downloads_exists, dirs, files, cwd_tars, nb_files>>

----------------------------------------------------------------------------
\* main: cleanup and the end of the run

\* shutil.rmtree('downloads'), then the report; the process ends with status 0.
main_cleanup ==
    /\ pc = "cleanup"
    /\ downloads_exists' = FALSE
    /\ dirs' = {}
    /\ files' = {}
    /\ log' = Append(log, Event("rmtree", 0, <<>>, <<"downloads">>, TRUE))
    /\ pc' = "done"
    /\ exit_status' = 0
    /\ UNCHANGED <<env_version, env_hf, opt_installed, i, j, cwd_tars,
                   dict_file, nb_files>>

----------------------------------------------------------------------------

Next ==
    \/ main_makedirs
    \/ main_probe
    \/ main_loop
    \/ download_hf_model_begin
    \/ download_hf_model_fetch
    \/ download_hf_model_copy
    \/ download_and_extract_download
    \/ download_and_extract_extract
    \/ download_and_extract_remove
    \/ optimize_model
    \/ download_ppocr_dict_fetch
    \/ download_ppocr_dict_fallback
    \/ main_cleanup

Spec == Init /\ [][Next]_vars

\* The script is one sequential process: it takes its next step whenever
\* it has one.
FairSpec == Spec /\ WF_vars(Next)

----------------------------------------------------------------------------
\* Properties

Indices == 1..Len(log)

\* A step of this kind on a model did not succeed.
ModelStepFailed(k) == log[k].model >= 1 /\ ~log[k].ok

OptimizedOk(m, k) == log[k].op = "optimize" /\ log[k].model = m /\ log[k].ok

IsDictFetch(k) == log[k].op = "fetch" /\ log[k].model = 0

IsModelWork(k) == log[k].op \in {"fetch", "extract", "remove", "copy", "optimize"}

\* C1: the optimizer is probed before any download, extraction, optimizer
\* run or dictionary fetch; when the probe reports it absent the process
\* exits with a non-zero status and the optimizer runs on no model.
C1_ProbeBeforeWork ==
    /\ pc \in {"start", "probe"} => log = <<>>
    /\ \A k \in Indices :
          (IsModelWork(k) \/ log[k].op \in {"fallback", "missing", "rmtree"})
             => k > 1 /\ log[1].op = "probe" /\ log[1].ok
    /\ (log # <<>> /\ ~log[1].ok)
          => /\ log[1].op = "probe"
             /\ pc = "exited"
             /\ exit_status > 0
             /\ \A k \in Indices : log[k].op # "optimize"

C1_Witness ==
    /\ pc = "exited"
    /\ exit_status = 1
    /\ Len(log) = 1
    /\ log[1].op = "probe"
    /\ ~log[1].ok

\* C2: a step invokes the optimizer only on a model file that exists at the
\* path it selected, the primary path or, when the primary is absent, the
\* legacy path; when neither exists the step invokes nothing and ends the
\* process with a non-zero status, after which nothing more happens.
C2_Step ==
    LET n == Len(log')
        invoked == n > Len(log) /\ log'[n].op = "optimize"
        name == MODELS[i].config.name
    IN /\ pc # "exited"
       /\ invoked
            => /\ pc = "optimize"
               /\ log'[n].model = i
               /\ log'[n].path \in files
               /\ log'[n].path \in {PrimaryModelFile(name), LegacyModelFile(name)}
               /\ log'[n].path = LegacyModelFile(name)
                     => PrimaryModelFile(name) \notin files
       /\ (/\ pc = "optimize"
           /\ PrimaryModelFile(name) \notin files
           /\ LegacyModelFile(name) \notin files)
            => /\ ~invoked
               /\ pc' = "exited"
               /\ exit_status' > 0
               /\ i' = i

C2_OptimizerOnlyOnExistingFile == [][C2_Step]_vars

C2_Witness ==
    /\ pc = "exited"
    /\ Len(log) > 1
    /\ log[Len(log)].op = "missing"
    /\ log[Len(log)].model = 2
    /\ \E k \in Indices :
          /\ OptimizedOk(1, k)
          /\ log[k].path = LegacyModelFile(MODELS[1].config.name)

\* C3: when a step on a model fails (its download, its extraction, a fetch
\* of one of its repository files, its model file missing, the optimizer
\* returning non-zero) the run ends there: it is the last thing the run
\* did, no later model was touched, the dictionary was not fetched,
\* downloads/ still exists and the exit status is not success.
C3_FailureAborts ==
    \A k \in Indices :
       ModelStepFailed(k)
          => /\ k = Len(log)
             /\ pc = "exited"
             /\ exit_status > 0
             /\ downloads_exists
             /\ \A q \in Indices :
                   /\ log[q].model <= log[k].model
                   /\ ~IsDictFetch(q)
                   /\ log[q].op \notin {"fallback", "rmtree"}

C3_Witness ==
    /\ pc = "exited"
    /\ \E k \in Indices :
          /\ log[k].op = "optimize"
          /\ log[k].model = 2
          /\ ~log[k].ok
    /\ \E k \in Indices : OptimizedOk(1, k)

AllOptimized == \A m \in 1..3 : \E k \in Indices : OptimizedOk(m, k)

Completed == pc = "done" /\ exit_status = 0 /\ dict_file.exists

\* C4: once all three models are optimized the run always goes on to the
\* cleanup and completes with status 0 and a dictionary file in place,
\* whether the dictionary fetch succeeded or failed.
C4_DictFailureNeverAborts == AllOptimized ~> Completed

C4_Witness ==
    /\ Completed
    /\ AllOptimized
    /\ \E k \in Indices : IsDictFetch(k) /\ ~log[k].ok
    /\ ~downloads_exists

Alphanumerics ==
    {"a", "b", "c", "d", "e", "f", "g", "h", "i", "j", "k", "l", "m",
     "n", "o", "p", "q", "r", "s", "t", "u", "v", "w", "x", "y", "z"}
    \cup
    {"A", "B", "C", "D", "E", "F", "G", "H", "I", "J", "K", "L", "M",
     "N", "O", "P", "Q", "R", "S", "T", "U", "V", "W", "X", "Y", "Z"}
    \cup
    {"0", "1", "2", "3", "4", "5", "6", "7", "8", "9"}

\* C5: when the dictionary fetch failed, the file download_ppocr_dict
\* leaves holds 62 lines, one character each, every one of a-z, A-Z, 0-9
\* exactly once, and nothing else, whatever the failed fetch left behind.
C5_FallbackIsAlphanumerics ==
    ((\E k \in Indices : IsDictFetch(k) /\ ~log[k].ok) /\ pc \in {"cleanup", "done"})
       => /\ dict_file.exists
          /\ Cardinality(Alphanumerics) = 62
          /\ Len(dict_file.content) = 2 * 62
          /\ \A n \in 1..62 :
                /\ dict_file.content[2 * n] = "\n"
                /\ dict_file.content[2 * n - 1] \in Alphanumerics
          /\ {dict_file.content[2 * n - 1] : n \in 1..62} = Alphanumerics

C5_Witness ==
    /\ pc = "done"
    /\ \E k \in Indices : IsDictFetch(k) /\ ~log[k].ok
    /\ \E k \in Indices : log[k].op = "fallback"
    /\ Len(dict_file.content) = 124

\* C6: after a run that completed, downloads/ is gone and no archive is
\* left in the working directory; downloads/ is removed only after all
\* three models were optimized and the dictionary step finished.
C6_CleanupAfterSuccess ==
    /\ pc = "done"
          => /\ ~downloads_exists
             /\ files = {}
             /\ dirs = {}
             /\ cwd_tars = {}
    /\ \A k \in Indices :
          log[k].op = "rmtree"
             => /\ \A m \in 1..3 : \E p \in 1..(k - 1) : OptimizedOk(m, p)
                /\ \E p \in 1..(k - 1) :
                      /\ IsDictFetch(p)
                      /\ ~log[p].ok => \E q \in (p + 1)..(k - 1) : log[q].op = "fallback"

C6_Witness ==
    /\ pc = "done"
    /\ Cardinality({k \in Indices : log[k].op = "remove"}) = 3
    /\ cwd_tars = {}
    /\ ~downloads_exists

\* C7: for each of v3, v4, v5 and each value of the source flag the table
\* has exactly the entries detection, recognition and classifier, each
\* with a non-empty url, name and output.
C7_TableWellFormed ==
    OCR_VERSION \in {"v3", "v4", "v5"}
       => /\ Len(MODELS) = 3
          /\ {MODELS[n].key : n \in 1..Len(MODELS)}
                = {"detection", "recognition", "classifier"}
          /\ \A n \in 1..Len(MODELS) :
                /\ {"url", "name", "output"} \subseteq DOMAIN MODELS[n].config
                /\ Len(MODELS[n].config.url) > 3
                /\ \A s \in 3..Len(MODELS[n].config.url) : MODELS[n].config.url[s] # ""
                /\ MODELS[n].config.name # ""
                /\ MODELS[n].config.output # ""

C7_Witness ==
    /\ OCR_VERSION = "v4"
    /\ USE_HUGGINGFACE
    /\ env_version = "v4"
    /\ env_hf = "True"
    /\ pc = "probe"

IsHfFetch(k) ==
    /\ log[k].op = "fetch"
    /\ log[k].model >= 1
    /\ IsHfRepo(MODELS[log[k].model].config)

\* C8: a failed fetch of a repository file ends download_hf_model with the
\* exception: the process exits, no other file of the list is fetched
\* after it, inference.pdmodel is not copied from inference.json and the
\* optimizer is not run on that model.
C8_HfFetchFailureAborts ==
    \A k \in Indices :
       (IsHfFetch(k) /\ ~log[k].ok)
          => /\ pc = "exited"
             /\ exit_status = 1
             /\ \A q \in Indices :
                   /\ q > k => log[q].op # "fetch"
                   /\ log[q].model = log[k].model
                         => log[q].op \notin {"copy", "optimize", "missing"}
             /\ log[k].path[2] = HfFiles[1]
                   => \A q \in Indices : log[q].path # <<log[k].path[1], HfFiles[2]>>

C8_Witness ==
    /\ pc = "exited"
    /\ \E k \in Indices :
          /\ IsHfFetch(k)
          /\ ~log[k].ok
          /\ log[k].model = 2
          /\ log[k].path[2] = "inference.pdiparams"

\* C9: models are handled one at a time in table order: nothing is done
\* for a model before the optimizer returned success for the one before
\* it, a model's fetch is complete before its optimizer runs, and the
\* dictionary is fetched only after the third model's optimizer succeeded.
C9_SequentialInTableOrder ==
    /\ <<MODELS[1].key, MODELS[2].key, MODELS[3].key>>
          = <<"detection", "recognition", "classifier">>
    /\ \A p \in Indices, q \in Indices :
          (p < q /\ log[p].model >= 1 /\ log[q].model >= 1)
             => log[p].model <= log[q].model
    /\ \A q \in Indices :
          /\ (log[q].model > 1)
                => \E p \in 1..(q - 1) : OptimizedOk(log[q].model - 1, p)
          /\ log[q].op \in {"optimize", "missing"}
                => /\ \E p \in 1..(q - 1) :
                         log[p].op = "fetch" /\ log[p].model = log[q].model /\ log[p].ok
                   /\ \A p \in Indices :
                         (log[p].op = "fetch" /\ log[p].model = log[q].model)
                            => p < q /\ log[p].ok
                   /\ IsHfRepo(MODELS[log[q].model].config)
                         => Cardinality({p \in 1..(q - 1) :
                               log[p].op = "fetch" /\ log[p].model = log[q].model})
                            = Len(HfFiles)
          /\ IsDictFetch(q)
                => \E p \in 1..(q - 1) : OptimizedOk(3, p)

C9_Witness ==
    /\ pc = "cleanup"
    /\ AllOptimized
    /\ \E k \in Indices : IsDictFetch(k)
    /\ \E k \in Indices : IsHfFetch(k)

\* C10: nothing is attempted twice: no url is requested more than once,
\* the optimizer runs at most once per model, the dictionary is fetched at
\* most once; a failure on a model is the last thing the run does, and a
\* failure of the dictionary fetch is followed by the fallback only.
C10_NoRetry ==
    /\ \A p \in Indices, q \in Indices :
          (p < q /\ log[p].op = "fetch" /\ log[q].op = "fetch")
             => log[p].url # log[q].url
    /\ \A p \in Indices, q \in Indices :
          (p < q /\ log[p].op \in {"optimize", "missing"}
                 /\ log[q].op \in {"optimize", "missing"})
             => log[p].model # log[q].model
    /\ Cardinality({k \in Indices : IsDictFetch(k)}) <= 1
    /\ \A k \in Indices :
          /\ ModelStepFailed(k) => k = Len(log) /\ pc = "exited"
          /\ (IsDictFetch(k) /\ ~log[k].ok)
                => \/ k = Len(log) /\ pc = "dict_fallback"
                   \/ k < Len(log) /\ log[k + 1].op = "fallback"
                                   /\ \A q \in (k + 2)..Len(log) : log[q].op = "rmtree"

C10_Witness ==
    /\ pc = "done"
    /\ Cardinality({k \in Indices : log[k].op = "fetch"}) = 6
    /\ Cardinality({k \in Indices : log[k].op = "optimize"}) = 3
    /\ \E k \in Indices : IsDictFetch(k) /\ ~log[k].ok

====
